---- MODULE Spec2Model ----
(***************************************************************************)
(* Batch orchestration of the product description generator:               *)
(* processCSV (the entry script) driving generateDescription / callOpenAI  *)
(* (generator.js) through pLimit(2) and pRetry({retries: 5}).              *)
(*                                                                         *)
(* Text values are sequences of one-character strings, so that trim() and  *)
(* the "ERROR: " + message concatenation are computed, not assumed.        *)
(***************************************************************************)
EXTENDS Integers, Sequences, FiniteSets, TLC

(* ------------------------------ bounds --------------------------------- *)

\* Number of product handles in the catalogue; input.csv holds a prefix of it.
MaxInput == 3

\* Longest output.csv found on disk when the first modelled run starts.
MaxPrior == 1

\* Number of consecutive runs of the program over the same output.csv.
MaxRuns == 2

\* Longest input.csv of the consecutive runs.
MaxResumeInput == 2

(* ------------------------- program constants --------------------------- *)

\* pLimit(2)
Concurrency == 2

\* pRetry(..., { retries: 5 })
Retries == 5

\* pRetry factor / minTimeout / maxTimeout
Factor == 2
MinTimeout == 1000
MaxTimeout == 10000

(* ------------------------------- text ---------------------------------- *)

Handles == 1 .. MaxInput

EmptyText == << >>

\* String.prototype.trim(): strip leading and trailing white space.
RECURSIVE TrimStart(_)
TrimStart(s) ==
    IF s # << >> /\ Head(s) = " " THEN TrimStart(Tail(s)) ELSE s

RECURSIVE TrimEnd(_)
TrimEnd(s) ==
    IF s # << >> /\ s[Len(s)] = " " THEN TrimEnd(SubSeq(s, 1, Len(s) - 1)) ELSE s

Trim(s) == TrimEnd(TrimStart(s))

\* "ERROR: "
ErrorPrefix == << "E", "R", "R", "O", "R", ":", " " >>

\* "ERROR: " + err.message
ErrorMarker(msg) == ErrorPrefix \o msg

\* String.prototype.startsWith
StartsWith(s, prefix) ==
    /\ Len(s) >= Len(prefix)
    /\ SubSeq(s, 1, Len(prefix)) = prefix

\* A description that is an error marker.
IsErrorMarker(d) ==
    /\ Len(d) >= Len(ErrorPrefix)
    /\ SubSeq(d, 1, Len(ErrorPrefix)) = ErrorPrefix

\* JavaScript truthiness of a string value: only "" is falsy.
Truthy(s) == s # EmptyText

\* response.choices[0].message.content values the API may return.
Contents ==
    { << >>, << " " >>, << "o", "k" >>, << " ", "o", "k", " " >> }

\* err.message values of a rejected API call.
ErrMsgs == { << "4", "2", "9" >>, << "5", "0", "0" >> }

\* response.usage values (prompt and completion counts differ).
Usages ==
    { [prompt_tokens |-> 2, completion_tokens |-> 3] }

(* ------------------------------- rows ---------------------------------- *)

TitleOf(h) == << "T", h >>

\* row["Image Src"] of a product without an image.
NoImage == << >>

\* A row of input.csv.
InputRow(h) == [Handle |-> h, Title |-> TitleOf(h), Image |-> NoImage]

\* { ...row, "Product Description": d }
WithDescription(row, d) ==
    [f \in (DOMAIN row) \cup {"PD"} |-> IF f = "PD" THEN d ELSE row[f]]

\* Descriptions a row of an earlier run's output.csv can carry.
PriorDescs ==
    { Trim(c) : c \in Contents } \cup { ErrorMarker(m) : m \in ErrMsgs }

PriorRows ==
    { WithDescription(InputRow(h), d) : h \in Handles, d \in PriorDescs }

RECURSIVE SeqsUpTo(_, _)
SeqsUpTo(S, n) ==
    IF n = 0 THEN { << >> }
    ELSE LET shorter == SeqsUpTo(S, n - 1)
         IN  shorter \cup
             { Append(f, r) : f \in { g \in shorter : Len(g) = n - 1 }, r \in S }

\* Files earlier runs can have left behind: once a handle has a row with a
\* non-empty description no later run appends another row for it.
ProducibleFile(f) ==
    \A i, j \in 1 .. Len(f) :
        (i < j /\ f[i].Handle = f[j].Handle) => ~Truthy(f[i].PD)

PriorFiles == { f \in SeqsUpTo(PriorRows, MaxPrior) : ProducibleFile(f) }

\* input.csv: the first n handles of the catalogue, in order.
InputFiles == { [i \in 1 .. n |-> InputRow(i)] : n \in 0 .. MaxInput }

(* ------------------------- pricing and images -------------------------- *)

\* MODEL_PRICING, in thousandths of a dollar per million tokens.
ModelPricing == [m \in {"gpt-4o-mini"} |-> [input |-> 150, output |-> 600]]

\* processCSV's default model, the one the script runs with.
DefaultModel == "gpt-4o-mini"

\* Model names processCSV can be called with.
Models == {"gpt-4o-mini", "gpt-4o"}

\* "http"
HttpPrefix == << "h", "t", "t", "p" >>

\* Local paths: one ordinary, one whose name begins with "http".
LocalPaths == { << "a", ".", "j", "p", "g" >>, << "h", "t", "t", "p", "d" >> }

\* row["Image Src"] values: none, a web address, a local path, a local path
\* beginning with "http", an address with another network scheme.
ImageSrcs ==
    { NoImage,
      << "h", "t", "t", "p", ":", "/", "/", "a" >>,
      << "f", "t", "p", ":", "/", "/", "a" >> } \cup LocalPaths

\* The file system: the paths that exist, and those among them that can be read.
FileSystems ==
    { [exists |-> e, readable |-> r] :
        e \in SUBSET LocalPaths, r \in SUBSET LocalPaths } \cap
    { fs \in [exists : SUBSET LocalPaths, readable : SUBSET LocalPaths] :
        fs.readable \subseteq fs.exists }

NoFiles == [exists |-> {}, readable |-> {}]

\* input.csv of one product, with any image reference.
ImageInputFiles ==
    { << [Handle |-> 1, Title |-> TitleOf(1), Image |-> src] >> : src \in ImageSrcs }

\* The text part of the request.
TextPart == [type |-> "text"]

\* generateDescription: messages[0].content, the prompt and at most one image.
MessageContent(row, fs) ==
    LET imageUrl == row.Image
    IN  IF Truthy(imageUrl) /\ StartsWith(imageUrl, HttpPrefix)
        THEN << TextPart, [type |-> "image_url", by |-> "reference", of |-> imageUrl] >>
        ELSE IF Truthy(imageUrl) /\ imageUrl \in fs.exists
        THEN IF imageUrl \in fs.readable
             THEN << TextPart, [type |-> "image_url", by |-> "inline", of |-> imageUrl] >>
             ELSE << TextPart >>
        ELSE << TextPart >>

(* ------------------------------ state ---------------------------------- *)

VARIABLES
    inputRows,              \* loadCsv(inputFile)
    existingRows,           \* loadCsv(outputFile)
    written,                \* rows passed to outStream.write, in order
    closed,                 \* outStream.end() has been called
    unit,                   \* per input row: the task given to limit()
    activeCount,            \* p-limit: tasks started and not yet settled
    totalPromptTokens,
    totalCompletionTokens,
    run,                    \* ordinal of the current run
    prevComplete,           \* the run that left existingRows reached end()
    model,                  \* processCSV's model argument
    files,                  \* the file system generateDescription reads
    status                  \* processCSV: "running", "done" or "fatal"

vars ==
    << inputRows, existingRows, written, closed, unit, activeCount,
       totalPromptTokens, totalCompletionTokens, run, prevComplete,
       model, files, status >>

Units == 1 .. Len(inputRows)

\* new Map(existingRows.map(row => [row.Handle, row])): the last row wins.
RECURSIVE MapOf(_)
MapOf(rows) ==
    IF rows = << >> THEN << >>
    ELSE LET front == MapOf(SubSeq(rows, 1, Len(rows) - 1))
             last  == rows[Len(rows)]
         IN  [h \in (DOMAIN front) \cup {last.Handle} |->
                 IF h = last.Handle THEN last ELSE front[h]]

existingMap == MapOf(existingRows)

\* Variant: the description is read from the input row, not the mapped row.
AlreadyDoneReadsInputRow(row) ==
    /\ row.Handle \in DOMAIN existingMap
    /\ Truthy(IF "PD" \in DOMAIN row THEN row.PD ELSE EmptyText)

\* Variant: a record left with an error marker is generated again.
AlreadyDoneRetriesErrors(row) ==
    /\ row.Handle \in DOMAIN existingMap
    /\ Truthy(existingMap[row.Handle].PD)
    /\ ~IsErrorMarker(existingMap[row.Handle].PD)

\* Variant: the identifier alone decides, whatever the mapped description.
AlreadyDoneKeyOnly(row) == row.Handle \in DOMAIN existingMap

\* existingMap.has(h) && existingMap.get(h)["Product Description"]
AlreadyDone(row) ==
    /\ row.Handle \in DOMAIN existingMap
    /\ Truthy(existingMap[row.Handle].PD)

Settled(i) == unit[i].pc \in {"skipped", "ok", "error"}

\* format({ headers: true }): the columns are the keys of the first row written;
\* every row is laid out under them, a missing cell being empty.
FormatCsv(rows) ==
    IF rows = << >> THEN << >>
    ELSE LET headers == DOMAIN rows[1]
         IN  [k \in 1 .. Len(rows) |->
                 [h \in headers |->
                     IF h \in DOMAIN rows[k] THEN rows[k][h] ELSE EmptyText]]

\* loadCsv(file): one object per line of the file, keyed by the header line.
LoadCsv(file) == [k \in 1 .. Len(file) |-> file[k]]

\* The unit's state while queued behind limit().
Queued ==
    [pc |-> "queued", attempt |-> 0, delay |-> 0, content |-> << >>, err |-> << >>]

\* processCSV up to and including the tasks' submission to limit().
StartRun(input, prior) ==
    /\ inputRows = input
    /\ existingRows = prior
    /\ written = prior
    /\ closed = FALSE
    /\ unit = [i \in 1 .. Len(input) |-> Queued]
    /\ activeCount = 0
    /\ totalPromptTokens = 0
    /\ totalCompletionTokens = 0
    /\ status = "running"

Init ==
    /\ \E input \in InputFiles, prior \in PriorFiles : StartRun(input, prior)
    /\ run = 1
    /\ prevComplete = FALSE
    /\ model = DefaultModel
    /\ files = NoFiles

\* Variant: the ceiling is compared with <= instead of <.
CanStartOneMore(i) ==
    /\ unit[i].pc = "queued"
    /\ \A j \in 1 .. i - 1 : unit[j].pc # "queued"
    /\ activeCount <= Concurrency

\* Variant: any queued task may take a free slot.
CanStartUnordered(i) ==
    /\ unit[i].pc = "queued"
    /\ activeCount < Concurrency

\* p-limit: the queue is FIFO and a task starts only below the ceiling.
CanStart(i) ==
    /\ unit[i].pc = "queued"
    /\ \A j \in 1 .. i - 1 : unit[j].pc # "queued"
    /\ activeCount < Concurrency

\* The task body up to its first await: the skip test, then generateDescription
\* builds the request and pRetry makes the first call.
Start(i) ==
    /\ CanStart(i)
    /\ IF AlreadyDone(inputRows[i])
       THEN /\ unit' = [unit EXCEPT ![i].pc = "skipped"]
            /\ UNCHANGED activeCount
       ELSE /\ unit' = [unit EXCEPT ![i].pc = "calling", ![i].attempt = 1,
                                    ![i].content =
                                        MessageContent(inputRows[i], files)]
            /\ activeCount' = activeCount + 1
    /\ UNCHANGED << inputRows, existingRows, written, closed,
                    totalPromptTokens, totalCompletionTokens, run, prevComplete,
                    model, files, status >>

\* callOpenAI's result: the trimmed content and the usage.
CallResult(content, usage) == [description |-> Trim(content), usage |-> usage]

\* Variant: the total is overwritten with the last usage (a lost update).
AddUsageOverwrites(total, count) == count

\* totalPromptTokens += ..., totalCompletionTokens += ...
AddUsage(total, count) == total + count

\* Variant: the row is put in front of the rows written so far.
OutStreamWriteInFront(rows, row) == << row >> \o rows

\* outStream.write(row): the sink takes the rows in the order of the writes.
OutStreamWrite(rows, row) == Append(rows, row)

\* The API answers: callOpenAI returns, pRetry resolves (its attempt counter is
\* gone with it), and the task adds the usage, writes the row and settles.
Respond(i) ==
    /\ unit[i].pc = "calling"
    /\ \E content \in Contents, usage \in Usages :
          LET result == CallResult(content, usage)
          IN  /\ totalPromptTokens' =
                    AddUsage(totalPromptTokens, result.usage.prompt_tokens)
              /\ totalCompletionTokens' =
                    AddUsage(totalCompletionTokens,
                             result.usage.completion_tokens)
              /\ written' =
                    OutStreamWrite(written,
                        WithDescription(inputRows[i], result.description))
    /\ unit' = [unit EXCEPT ![i].pc = "ok", ![i].attempt = 0]
    /\ activeCount' = activeCount - 1
    /\ UNCHANGED << inputRows, existingRows, closed, run, prevComplete,
                    model, files, status >>

\* Variant: the retries option counted as the total number of attempts.
ShouldRetryCountsAttempts(attempt, msg) == attempt < Retries

\* Variant: a rate-limit rejection is retried, any other one is final.
ShouldRetryClassifies(attempt, msg) ==
    attempt <= Retries /\ msg = << "4", "2", "9" >>

\* pRetry: after a failed attempt, another one follows while retries are left,
\* whatever the error (the options name no error to give up on).
ShouldRetry(attempt, msg) == attempt <= Retries

RECURSIVE Pow(_, _)
Pow(b, e) == IF e = 0 THEN 1 ELSE b * Pow(b, e - 1)

Min(a, b) == IF a <= b THEN a ELSE b

\* Variant: the delay grows without the maxTimeout ceiling.
DelayUnclamped(k) == MinTimeout * Pow(Factor, k - 1)

\* pRetry: the delay before the retry that follows failed attempt number k.
Delay(k) == Min(MinTimeout * Pow(Factor, k - 1), MaxTimeout)

\* Variant: no catch block; the rejection leaves the task without a row and
\* the slot is never handed on.
CatchErrorRethrows(i, msg) ==
    /\ unit' = [unit EXCEPT ![i].pc = "error", ![i].err = msg]
    /\ UNCHANGED << written, activeCount >>

\* Variant: the catch block only logs.
CatchErrorLogsOnly(i, msg) ==
    /\ unit' = [unit EXCEPT ![i].pc = "error", ![i].err = msg]
    /\ activeCount' = activeCount - 1
    /\ UNCHANGED written

\* Variant: the marker is written without the error's message.
CatchErrorDropsMessage(i, msg) ==
    /\ written' =
          OutStreamWrite(written, WithDescription(inputRows[i], ErrorPrefix))
    /\ unit' = [unit EXCEPT ![i].pc = "error", ![i].err = msg]
    /\ activeCount' = activeCount - 1

\* The catch block of the task: the row is written with the error marker.
\* The unit keeps the error caught (err) and the number of the attempt that
\* threw it (error.attemptNumber).
CatchError(i, msg) ==
    /\ written' =
          OutStreamWrite(written, WithDescription(inputRows[i], ErrorMarker(msg)))
    /\ unit' = [unit EXCEPT ![i].pc = "error", ![i].err = msg]
    /\ activeCount' = activeCount - 1

\* The API call rejects: pRetry either schedules the next attempt or rethrows
\* to the task, whose catch block writes the error row.
Reject(i) ==
    /\ unit[i].pc = "calling"
    /\ \E msg \in ErrMsgs :
          IF ShouldRetry(unit[i].attempt, msg)
          THEN /\ unit' = [unit EXCEPT ![i].pc = "backoff",
                                       ![i].delay = Delay(unit[i].attempt)]
               /\ UNCHANGED << written, activeCount >>
          ELSE CatchError(i, msg)
    /\ UNCHANGED << inputRows, existingRows, closed,
                    totalPromptTokens, totalCompletionTokens, run, prevComplete,
                    model, files, status >>

\* The backoff delay elapses: pRetry calls callOpenAI again.
Retry(i) ==
    /\ unit[i].pc = "backoff"
    /\ unit' = [unit EXCEPT ![i].pc = "calling",
                            ![i].attempt = unit[i].attempt + 1,
                            ![i].delay = 0]
    /\ UNCHANGED << inputRows, existingRows, written, closed, activeCount,
                    totalPromptTokens, totalCompletionTokens, run, prevComplete,
                    model, files, status >>

\* Variant: the tasks are not awaited before end().
AllTasksNotAwaited == TRUE

\* Variant: a task that failed rejects, and Promise.all never resolves.
AllTasksFulfilled == \A i \in Units : unit[i].pc \in {"skipped", "ok"}

\* await Promise.all(tasks)
AllTasksSettled == \A i \in Units : Settled(i)

\* MODEL_PRICING[model].input / .output: throws for a model without an entry.
CostReport(m) == IF m \in DOMAIN ModelPricing THEN "done" ELSE "fatal"

\* Variant: the pricing entry is looked up before the sink is ended.
CloseAfterPricing ==
    /\ ~closed
    /\ AllTasksSettled
    /\ status = "running"
    /\ status' = CostReport(model)
    /\ closed' = (status' = "done")
    /\ UNCHANGED << inputRows, existingRows, written, unit, activeCount,
                    totalPromptTokens, totalCompletionTokens, run, prevComplete,
                    model, files >>

\* Promise.all resolves: outStream.end(), then the cost is computed and logged.
Close ==
    /\ ~closed
    /\ AllTasksSettled
    /\ closed' = TRUE
    /\ status' = CostReport(model)
    /\ UNCHANGED << inputRows, existingRows, written, unit, activeCount,
                    totalPromptTokens, totalCompletionTokens, run, prevComplete,
                    model, files >>

\* The process ends (after end(), or killed before it) and the program is run
\* again on the same input.csv: output.csv is what the ended run wrote.
Restart ==
    /\ run < MaxRuns
    /\ run' = run + 1
    /\ prevComplete' = closed
    /\ existingRows' = LoadCsv(FormatCsv(written))
    /\ written' = existingRows'
    /\ closed' = FALSE
    /\ unit' = [i \in Units |-> Queued]
    /\ activeCount' = 0
    /\ totalPromptTokens' = 0
    /\ totalCompletionTokens' = 0
    /\ status' = "running"
    /\ UNCHANGED << inputRows, model, files >>

Step ==
    \/ \E i \in Units : Start(i)
    \/ \E i \in Units : Respond(i)
    \/ \E i \in Units : Reject(i)
    \/ \E i \in Units : Retry(i)
    \/ Close

Next == Step

\* One run of processCSV, over any output.csv an earlier run can have left.
Spec == Init /\ [][Next]_vars

\* Consecutive runs, the first one starting without an output.csv.
InitResume ==
    /\ Init
    /\ existingRows = << >>
    /\ Len(inputRows) <= MaxResumeInput

NextResume == Step \/ Restart

SpecResume == InitResume /\ [][NextResume]_vars

\* The run's events are weakly fair: every API call is eventually answered or
\* rejected, every backoff timer fires, every ready task starts. The output.csv
\* found at the start holds rows of the first product only.
InitFair ==
    /\ Init
    /\ \A k \in 1 .. Len(existingRows) : existingRows[k].Handle = 1

SpecFair == InitFair /\ [][Next]_vars /\ WF_vars(Next)

\* processCSV called with any model name.
InitModel ==
    /\ \E input \in InputFiles, prior \in PriorFiles :
          /\ StartRun(input, prior)
          /\ \A k \in 1 .. Len(prior) : prior[k].Handle = 1
    /\ run = 1
    /\ prevComplete = FALSE
    /\ model \in Models
    /\ files = NoFiles

SpecModel == InitModel /\ [][Next]_vars

\* One product with any image reference, over any file system.
InitImage ==
    /\ \E input \in ImageInputFiles : StartRun(input, << >>)
    /\ run = 1
    /\ prevComplete = FALSE
    /\ model = DefaultModel
    /\ files \in FileSystems

SpecImage == InitImage /\ [][Next]_vars

(* --------------------------- observations ------------------------------ *)

InFlight == { i \in Units : unit[i].pc = "calling" }

\* The rows written by the tasks of this run, after the carried-over ones.
NewRows == SubSeq(written, Len(existingRows) + 1, Len(written))

Positions(rows, h) == { k \in 1 .. Len(rows) : rows[k].Handle = h }

HandlesOf(rows) == { rows[k].Handle : k \in 1 .. Len(rows) }

UniqueHandles(rows) ==
    \A k1, k2 \in 1 .. Len(rows) :
        rows[k1].Handle = rows[k2].Handle => k1 = k2

Occurrences(rows, r) == Cardinality({ k \in 1 .. Len(rows) : rows[k] = r })

\* The same rows, row order ignored.
SameRows(a, b) ==
    /\ Len(a) = Len(b)
    /\ \A k \in 1 .. Len(a) : Occurrences(a, a[k]) = Occurrences(b, a[k])

NotSkipped == { i \in Units : unit[i].pc # "skipped" }

(* ------------------------------ claims --------------------------------- *)

\* C1: in every reachable state of a run, at most 2 generation calls
\* (callOpenAI invocations) are in flight at once.
C1_ConcurrencyCeiling == Cardinality(InFlight) <= 2

\* Two calls in flight while a third unit waits in the queue.
C1_Witness ==
    /\ Cardinality(InFlight) = 2
    /\ \E i \in Units : unit[i].pc = "queued"

C3_Original ==
    (run >= 2 /\ prevComplete) =>
       /\ \A i \in Units : unit[i].pc \in {"queued", "skipped"}
       /\ closed => SameRows(written, existingRows)

\* C4: in a run resumed from what an earlier run (interrupted at any point, or
\* ended) had written, every input record that has a row with a non-empty
\* description in that output makes no generation call, and the row is in the
\* resumed run's output.
C4_DoneIsSkipped ==
    run >= 2 =>
       \A i \in Units :
          \A k \in Positions(existingRows, inputRows[i].Handle) :
             Truthy(existingRows[k].PD) =>
                /\ unit[i].pc \in {"queued", "skipped"}
                /\ Occurrences(written, existingRows[k]) >= 1

\* A resumed run, started while the earlier run was still working, has skipped
\* the record that run had written and is generating for another one.
C4_Witness ==
    /\ run >= 2
    /\ ~prevComplete
    /\ \E i, j \in Units :
          /\ unit[i].pc = "skipped"
          /\ unit[j].pc = "calling"
          /\ \E k \in Positions(existingRows, inputRows[i].Handle) :
                Truthy(existingRows[k].PD) /\ ~IsErrorMarker(existingRows[k].PD)

\* The last row of the prior output with the record's identifier exists and has
\* a non-empty description.
IndexedWithDescription(i) ==
    \E k \in Positions(existingRows, inputRows[i].Handle) :
       /\ \A k2 \in Positions(existingRows, inputRows[i].Handle) : k2 <= k
       /\ existingRows[k].PD # << >>

\* C5: a started unit has skipped its record iff the identifier is in the
\* Resume Index with a non-empty description; a skipped unit writes nothing, and
\* any other started unit is generating or has written its one row.
C5_SkipDecision ==
    \A i \in Units :
       unit[i].pc # "queued" =>
          /\ unit[i].pc = "skipped" <=> IndexedWithDescription(i)
          /\ unit[i].pc = "skipped" =>
                Positions(NewRows, inputRows[i].Handle) = {}
          /\ unit[i].pc \in {"ok", "error"} =>
                Cardinality(Positions(NewRows, inputRows[i].Handle)) = 1

\* One record skipped, one whose identifier is absent from the index generated.
C5_Witness ==
    /\ closed
    /\ \E i, j \in Units :
          /\ unit[i].pc = "skipped"
          /\ unit[j].pc = "ok"
          /\ inputRows[j].Handle \notin HandlesOf(existingRows)

\* Every unit has settled, and every unit that was not skipped has its one row,
\* with its own outcome.
AllProcessedAndWritten ==
    \A j \in Units :
       /\ Settled(j)
       /\ unit[j].pc # "skipped" =>
             \E k \in 1 .. Len(NewRows) :
                /\ Positions(NewRows, inputRows[j].Handle) = {k}
                /\ IsErrorMarker(NewRows[k].PD) <=> unit[j].pc = "error"

\* C6: once a record has failed permanently, every other record is still
\* eventually processed and written with its own outcome.
C6_ErrorIsolation ==
    (\E i \in Units : unit[i].pc = "error") ~> AllProcessedAndWritten

\* A record failed permanently while a sibling had not even started; later the
\* sibling is written with a generated description.
C6_Witness ==
    /\ closed
    /\ Len(inputRows) >= 3
    /\ unit[1].pc = "error" /\ unit[2].pc = "error" /\ unit[3].pc = "ok"

\* C7: at end-of-batch the output holds the carried-over rows plus one row per
\* input record that was not skipped; N + M rows when the N input records and
\* the M prior rows have no identifier in common.
C7_RowCount ==
    closed =>
       /\ Len(written) = Len(existingRows) + Cardinality(NotSkipped)
       /\ HandlesOf(inputRows) \cap HandlesOf(existingRows) = {} =>
             Len(written) = Len(inputRows) + Len(existingRows)

\* A finished run over disjoint input and prior output, with a success and a
\* permanent failure.
C7_Witness ==
    /\ closed
    /\ Len(existingRows) >= 1
    /\ HandlesOf(inputRows) \cap HandlesOf(existingRows) = {}
    /\ \E i, j \in Units : unit[i].pc = "error" /\ unit[j].pc = "ok"

\* C8 as stated: no row written during a run has an empty description.
C8_Original ==
    \A k \in 1 .. Len(written) : written[k].PD # << >>

\* C9 as stated: with unique identifiers in the input and in the prior output,
\* no identifier has two rows among those written during a run.
C9_Original ==
    (UniqueHandles(inputRows) /\ UniqueHandles(existingRows)) =>
       UniqueHandles(written)

\* C10: the sink is closed only when every unit has settled, and nothing is
\* written (nor is the sink reopened) once it is closed.
C10_CloseAfterSettle ==
    /\ [](closed => \A i \in Units : Settled(i))
    /\ [][closed => (closed' /\ written' = written)]_vars

\* The sink closed after a run in which a unit went through every backoff.
C10_Witness ==
    /\ closed
    /\ Len(inputRows) >= 3
    /\ \E i \in Units : unit[i].pc = "error"

\* C11: with every attempt eventually answered or rejected, the run reaches
\* end-of-batch, closes the sink and ends as a successful run, whatever number
\* of records ended with an error marker.
C11_Termination == <>(closed /\ status = "done")

\* A successful end of a run in which every record ended with an error marker.
C11_Witness ==
    /\ closed
    /\ status = "done"
    /\ Len(inputRows) >= 2
    /\ \A i \in Units : unit[i].pc = "error"

\* C12: with a model name that has no pricing entry the run fails only at cost
\* reporting: not before the sink is closed, with every unit settled and every
\* record that was not skipped written.
C12_UnknownModel ==
    /\ ~closed => status = "running"
    /\ (closed /\ model \notin {"gpt-4o-mini"}) => status = "fatal"
    /\ status = "fatal" =>
          /\ model \notin {"gpt-4o-mini"}
          /\ closed
          /\ \A i \in Units :
                /\ Settled(i)
                /\ unit[i].pc # "skipped" =>
                      Cardinality(Positions(NewRows, inputRows[i].Handle)) = 1

\* A run with an unknown model that failed after writing a generated row and an
\* error-marked row.
C12_Witness ==
    /\ status = "fatal"
    /\ \E i, j \in Units : unit[i].pc = "ok" /\ unit[j].pc = "error"

C15_BackoffDelays ==
    \A i \in Units :
       IF unit[i].pc = "backoff"
       THEN /\ unit[i].attempt \in 1 .. 5
            /\ unit[i].delay =
                  << 1000, 2000, 4000, 8000, 10000 >>[unit[i].attempt]
            /\ unit[i].delay >= 1000
            /\ unit[i].delay <= 10000
       ELSE unit[i].delay = 0

\* A unit waiting out the longest delay, after its fifth failed attempt.
C15_Witness ==
    \E i \in Units :
       unit[i].pc = "backoff" /\ unit[i].attempt = 5 /\ unit[i].delay = 10000

OkUnits == { i \in Units : unit[i].pc = "ok" }

\* C17: each total is the sum of the usage counts of the generated records
\* (every call returns 2 prompt and 3 completion tokens); the totals never
\* decrease and change only in a step in which a unit's generation succeeds.
C17_UsageTotals ==
    /\ [](/\ totalPromptTokens = 2 * Cardinality(OkUnits)
          /\ totalCompletionTokens = 3 * Cardinality(OkUnits))
    /\ [][/\ totalPromptTokens' >= totalPromptTokens
          /\ totalCompletionTokens' >= totalCompletionTokens
          /\ (\/ totalPromptTokens' # totalPromptTokens
              \/ totalCompletionTokens' # totalCompletionTokens) =>
                \E i \in Units : unit[i].pc = "calling" /\ unit'[i].pc = "ok"]_vars

\* A finished run with two generated records, a failed one, and the totals.
C17_Witness ==
    /\ closed
    /\ Cardinality(OkUnits) = 2
    /\ \E i \in Units : unit[i].pc = "error"
    /\ totalPromptTokens = 4
    /\ totalCompletionTokens = 6

\* C18 as stated: the request of a started unit carries at most one image, by
\* reference exactly when the image reference begins with a network scheme
\* ("<scheme>://"), inline exactly when it is no network locator, exists
\* locally and is read.
C18_Original ==
    LET HasNetworkScheme(s) ==
            \E k \in 2 .. Len(s) - 2 : SubSeq(s, k, k + 2) = << ":", "/", "/" >>
        ImageParts(i) ==
            { k \in 1 .. Len(unit[i].content) :
                 unit[i].content[k].type = "image_url" }
    IN  \A i \in Units :
           unit[i].content # << >> =>
              /\ Cardinality(ImageParts(i)) <= 1
              /\ (\E k \in ImageParts(i) : unit[i].content[k].by = "reference")
                    <=> HasNetworkScheme(inputRows[i].Image)
              /\ (\E k \in ImageParts(i) : unit[i].content[k].by = "inline")
                    <=> /\ ~HasNetworkScheme(inputRows[i].Image)
                        /\ inputRows[i].Image \in files.readable

ActiveUnits == { i \in Units : unit[i].pc \in {"calling", "backoff"} }

\* C19: the slots taken are exactly the units started and not settled, backoff
\* included, and never more than 2; units start in input order; a third or
\* later unit has started only after an earlier one settled.
C19_SlotHeld ==
    /\ activeCount = Cardinality(ActiveUnits)
    /\ Cardinality(ActiveUnits) <= 2
    /\ \A i, j \in Units :
          (i < j /\ unit[j].pc # "queued") => unit[i].pc # "queued"
    /\ \A j \in Units :
          (j >= 3 /\ unit[j].pc # "queued") =>
             \E i \in 1 .. j - 1 : Settled(i)

\* One unit waits out a backoff, one has a call in flight, the third is queued.
C19_Witness ==
    /\ Len(inputRows) >= 3
    /\ unit[1].pc = "backoff"
    /\ unit[2].pc = "calling"
    /\ unit[3].pc = "queued"

\* C20: in a resumed run, a record the earlier run left with an error marker
\* makes no generation call and gets no new row; its error-marked row is
\* carried over as it was.
C20_ErrorMarkedIsDone ==
    run >= 2 =>
       \A i \in Units :
          \A k \in Positions(existingRows, inputRows[i].Handle) :
             IsErrorMarker(existingRows[k].PD) =>
                /\ unit[i].pc \in {"queued", "skipped"}
                /\ Positions(NewRows, inputRows[i].Handle) = {}
                /\ written[k] = existingRows[k]

\* A resumed run that ended after skipping an error-marked record.
C20_Witness ==
    /\ run >= 2
    /\ closed
    /\ \E i \in Units :
          /\ unit[i].pc = "skipped"
          /\ \E k \in Positions(existingRows, inputRows[i].Handle) :
                IsErrorMarker(existingRows[k].PD)

====
